---- MODULE Spec2Model ----
(***************************************************************************)
(* A model of the teaching examples of sniffing-rust-code:                 *)
(*   dst_deep_dive.rs          PluginManager, DebugBox, smart pointers,    *)
(*                             smart_ptr::process_data                     *)
(*   iterator_patterns.rs      Iter / Map / Filter, zero_cost_benchmark,   *)
(*                             collecting parse results                    *)
(*   error_handling_patterns.rs read_and_parse_number, AppError responses  *)
(* Each example is an isolated lesson, so each has its own specification   *)
(* over its own variables; the other variables stay at their idle values.  *)
(* A Rust string is modelled as a sequence of one-character strings.       *)
(***************************************************************************)
EXTENDS Integers, Sequences, FiniteSets, TLC

VARIABLES
    \* dyn_processor::PluginManager
    processors,     \* PluginManager.processors: Vec<Box<dyn DataProcessor>>
    pd_call,        \* the last process_data call: receiver, argument, console log, result
    \* impl_my_iter_ext: Filter { iter: Map { iter: Iter { slice, idx }, f }, f }
    chain,          \* the adapter chain: slice, idx, the map closure, the filter closure
    res,            \* the Vec that collect() is filling
    collected,      \* collect() has returned
    \* smart_ptr::process_data
    input,          \* the argument
    sp_result,      \* the returned Result<i32, Box<dyn Error>>
    \* read_and_parse_number
    file,           \* what the file system holds at the path
    rp_result,      \* the returned Result<i32, FileError>
    \* iter_best_practice::best_practice_result_option
    data,           \* the Vec<&str> being consumed
    pos,            \* elements taken from data.into_iter()
    parsed,         \* the positions str::parse was called on, in call order
    vec,            \* the Vec<i32> collected so far
    collect_result, \* the returned Result<Vec<i32>, ParseIntError>
    \* iter_best_practice::best_practice_error_handling
    eh_data,        \* the Vec<&str> both passes run over
    eh_pc,          \* "collect", "question", "try_fold", "done"
    eh_pos,         \* elements taken by the pass that is running
    eh_parsed,      \* the Result<Vec<i32>, _> of the collect pass (`parsed`)
    eh_log,         \* the positions each pass called parse on, in call order
    eh_acc,         \* the accumulator of try_fold
    eh_result,      \* the returned Result<i32, Box<dyn Error>>
    \* zero_cost_benchmark
    bench,          \* the data vector and the build profile
    bench_pc,       \* "loop", "iter", "assert", "done", "panicked", "assert_failed"
    loop_i,         \* the index of the hand-written loop / items consumed by the chain
    sum1,           \* the hand-written loop's sum
    sum2,           \* the iterator chain's sum
    \* smart_ptr::DebugBox
    access_count,   \* DebugBox.access_count: Cell<usize>
    box_ops,        \* the operations applied to the DebugBox so far
    last_read,      \* what the last access_count() call returned
    dropped,        \* the DebugBox has been dropped
    \* smart_ptr::smart_pointers_in_practice
    sp_pc,          \* position of the function's own thread
    config_strong,  \* strong count of the Rc behind config
    printed,        \* the counts printed by the println! of the reference count
    shared_counter, \* the AtomicUsize behind shared_counter
    arc_strong,     \* strong count of the Arc behind shared_counter
    threads,        \* state of each spawned thread
    joined,         \* handles joined so far
    mutable_in_immutable,   \* the Vec inside the RefCell
    \* error_layout::AppError
    app_errors,     \* two AppError values
    responses       \* the Response each was turned into

pluginVars == <<processors, pd_call>>
iterVars == <<chain, res, collected>>
parseVars == <<input, sp_result>>
fileVars == <<file, rp_result>>
collectVars == <<data, pos, parsed, vec, collect_result>>
foldVars == <<eh_data, eh_pc, eh_pos, eh_parsed, eh_log, eh_acc, eh_result>>
benchVars == <<bench, bench_pc, loop_i, sum1, sum2>>
boxVars == <<access_count, box_ops, last_read, dropped>>
smartVars == <<sp_pc, config_strong, printed, shared_counter, arc_strong, threads,
               joined, mutable_in_immutable>>
respVars == <<app_errors, responses>>

vars == <<pluginVars, iterVars, parseVars, fileVars, collectVars, foldVars, benchVars,
          boxVars, smartVars, respVars>>

\* What each example leaves alone: the variables of all the others.
PluginFrame == UNCHANGED <<foldVars, iterVars, parseVars, fileVars, collectVars, benchVars, boxVars,
                           smartVars, respVars>>
IterFrame == UNCHANGED <<foldVars, pluginVars, parseVars, fileVars, collectVars, benchVars, boxVars,
                         smartVars, respVars>>
ParseFrame == UNCHANGED <<foldVars, pluginVars, iterVars, fileVars, collectVars, benchVars, boxVars,
                          smartVars, respVars>>
FileFrame == UNCHANGED <<foldVars, pluginVars, iterVars, parseVars, collectVars, benchVars, boxVars,
                         smartVars, respVars>>
CollectFrame == UNCHANGED <<foldVars, pluginVars, iterVars, parseVars, fileVars, benchVars, boxVars,
                            smartVars, respVars>>
BenchFrame == UNCHANGED <<foldVars, pluginVars, iterVars, parseVars, fileVars, collectVars, boxVars,
                          smartVars, respVars>>
BoxFrame == UNCHANGED <<foldVars, pluginVars, iterVars, parseVars, fileVars, collectVars, benchVars,
                        smartVars, respVars>>
SmartFrame == UNCHANGED <<foldVars, pluginVars, iterVars, parseVars, fileVars, collectVars, benchVars,
                          boxVars, respVars>>
RespFrame == UNCHANGED <<foldVars, pluginVars, iterVars, parseVars, fileVars, collectVars, benchVars,
                         boxVars, smartVars>>
FoldFrame == UNCHANGED <<pluginVars, iterVars, parseVars, fileVars, collectVars, benchVars,
                         boxVars, smartVars, respVars>>

(***************************************************************************)
(* Bounds of the model.                                                    *)
(***************************************************************************)
MaxProcessors == 3      \* register calls explored
MaxDataLen == 3         \* length of the data handed to PluginManager::process_data
MaxSliceLen == 3        \* length of the slice behind Iter
MaxInputLen == 3        \* length of a string handed to a parser
MaxItems == 3           \* length of the Vec<&str> of strings to parse
MaxSize == 4            \* stands for SIZE of zero_cost_benchmark (1_000_000 there)
MaxBenchLen == 3        \* length of the other vectors the two sums are run on
MaxOps == 4             \* operations applied to one DebugBox
MaxPayload == 2         \* distinct values of each payload field of an AppError

(***************************************************************************)
(* Strings.                                                                *)
(***************************************************************************)
\* All sequences over alphabet of length at most n.
SeqsUpTo(alphabet, n) == UNION {[1..k -> alphabet] : k \in 0..n}

NoCall == [called |-> FALSE]

(***************************************************************************)
(* dyn_processor: DataProcessor implementations and PluginManager.         *)
(***************************************************************************)
ProcessorTypes == {"JsonProcessor", "CsvProcessor"}

\* The characters the two processors tell apart: the braces and the line
\* feed.  Any other character acts like "}" in first place, like "{" in last
\* place and like either brace inside a line.
DataChars == {"{", "}", "\n"}

DataInputs == SeqsUpTo(DataChars, MaxDataLen)

\* DataProcessor::priority: 8 for JsonProcessor, 6 for CsvProcessor
\* (the trait's default, 5, is overridden by both).
priority(p) == IF p = "JsonProcessor" THEN 8 ELSE 6

\* str::lines().count(): lines are terminated by a line feed; a final line
\* without terminator counts when it is not empty.
RECURSIVE LinesCount(_)
LinesCount(s) ==
    IF s = <<>> THEN 0
    ELSE IF \E i \in 1..Len(s) : s[i] = "\n"
         THEN LET i == CHOOSE j \in 1..Len(s) :
                           /\ s[j] = "\n"
                           /\ \A k \in 1..(j - 1) : s[k] # "\n"
              IN 1 + LinesCount(SubSeq(s, i + 1, Len(s)))
         ELSE 1

JsonProcess(s) ==
    IF /\ Len(s) > 0
       /\ s[1] = "{"
       /\ s[Len(s)] = "}"
    THEN [ok |-> TRUE, by |-> "JsonProcessor", text |-> s]
    ELSE [ok |-> FALSE, err |-> "not_valid_json"]

CsvProcess(s) ==
    LET lines == LinesCount(s)
    IN IF lines > 1
       THEN [ok |-> TRUE, by |-> "CsvProcessor", lines |-> lines]
       ELSE [ok |-> FALSE, err |-> "csv_format_incorrect"]

\* DataProcessor::process, dispatched on the trait object's type.
process(p, s) ==
    IF p = "JsonProcessor" THEN JsonProcess(s) ELSE CsvProcess(s)

\* Vec::sort_by(|a, b| b.priority().cmp(&a.priority())): a stable sort, so x
\* is placed behind every earlier element whose priority is not lower.
RECURSIVE InsertByPriority(_, _)
InsertByPriority(sorted, x) ==
    IF sorted = <<>> THEN <<x>>
    ELSE IF priority(Head(sorted)) < priority(x)
         THEN <<x>> \o sorted
         ELSE <<Head(sorted)>> \o InsertByPriority(Tail(sorted), x)

RECURSIVE SortInto(_, _)
SortInto(sorted, rest) ==
    IF rest = <<>> THEN sorted
    ELSE SortInto(InsertByPriority(sorted, Head(rest)), Tail(rest))

NoSort(v) == v

SortByPriorityDesc(v) == SortInto(<<>>, v)

\* PluginManager::register: push, then sort by priority.
RegisterResult(v, p) == SortByPriorityDesc(Append(v, p))

Register(p) ==
    /\ Len(processors) < MaxProcessors
    /\ processors' = RegisterResult(processors, p)
    /\ UNCHANGED pd_call
    /\ PluginFrame

\* The for loop of PluginManager::process_data from position i on: each
\* processor tried is logged (the println! of its name and priority), the
\* first success is returned, a failure continues with the next processor.
RECURSIVE TryFromKeepGoing(_, _, _)
TryFromKeepGoing(v, i, s) ==
    IF i > Len(v) THEN [invoked |-> <<>>, result |-> [ok |-> FALSE, err |-> "no_processor"]]
    ELSE LET r == process(v[i], s)
             rest == TryFromKeepGoing(v, i + 1, s)
             entry == [name |-> v[i], priority |-> priority(v[i]), ok |-> r.ok]
         IN [invoked |-> <<entry>> \o rest.invoked,
             result |-> IF rest.result.ok \/ ~r.ok THEN rest.result ELSE r]

RECURSIVE TryFrom(_, _, _)
TryFrom(v, i, s) ==
    IF i > Len(v) THEN [invoked |-> <<>>, result |-> [ok |-> FALSE, err |-> "no_processor"]]
    ELSE LET r == process(v[i], s)
             entry == [name |-> v[i], priority |-> priority(v[i]), ok |-> r.ok]
         IN IF r.ok
            THEN [invoked |-> <<entry>>, result |-> r]
            ELSE LET rest == TryFrom(v, i + 1, s)
                 IN [invoked |-> <<entry>> \o rest.invoked, result |-> rest.result]

PluginProcessData(d) ==
    /\ LET r == TryFrom(processors, 1, d)
       IN pd_call' = [called |-> TRUE, self |-> processors, data |-> d,
                      invoked |-> r.invoked, result |-> r.result]
    /\ UNCHANGED processors
    /\ PluginFrame

\* PluginManager::new()
InitPlugin ==
    /\ processors = <<>>
    /\ pd_call = NoCall

(***************************************************************************)
(* impl_my_iter_ext: Iter, Map, Filter and collect().                      *)
(***************************************************************************)
SliceValues == {-1, 0, 1, 2}

\* vec![0, 1, 2, 3, 4, 5, 6, 7, 8, 9] of test_iter_map_filter
TestVec == <<0, 1, 2, 3, 4, 5, 6, 7, 8, 9>>

Slices == SeqsUpTo(SliceValues, MaxSliceLen) \cup {TestVec}

\* The closures handed to my_map and my_filter: the test's |i| i * i and
\* |i| i % 2 == 0, and one more of each.
MapClosures == {"square", "succ"}
FilterClosures == {"even", "positive"}

\* Rust's % on i32: the remainder takes the sign of the dividend.
RustRem(a, b) == IF a >= 0 THEN a % b ELSE -((-a) % b)

CallMap(f, x) == IF f = "square" THEN x * x ELSE x + 1

CallFilter(p, x) == IF p = "even" THEN RustRem(x, 2) = 0 ELSE x > 0

None == [some |-> FALSE]
Some(x) == [some |-> TRUE, item |-> x]

\* Iter::next on Iter { slice, idx }: the item and the idx afterwards.
IterNext(slice, idx) ==
    IF idx = Len(slice)
    THEN [out |-> None, idx |-> idx]
    ELSE [out |-> Some(slice[idx + 1]), idx |-> idx + 1]

\* Map::next: the inner next, with f applied to its item.
MapNext(slice, idx, f) ==
    LET inner == IterNext(slice, idx)
    IN IF inner.out.some
       THEN [out |-> Some(CallMap(f, inner.out.item)), idx |-> inner.idx]
       ELSE [out |-> None, idx |-> inner.idx]

\* Filter::next: pull from the inner iterator until an item passes.
FilterNextStopAtMismatch(slice, idx, f, p) ==
    LET inner == MapNext(slice, idx, f)
    IN IF inner.out.some /\ ~CallFilter(p, inner.out.item)
       THEN [out |-> None, idx |-> inner.idx]
       ELSE inner

RECURSIVE FilterNext(_, _, _, _)
FilterNext(slice, idx, f, p) ==
    LET inner == MapNext(slice, idx, f)
    IN IF ~inner.out.some THEN [out |-> None, idx |-> inner.idx]
       ELSE IF CallFilter(p, inner.out.item) THEN inner
       ELSE FilterNext(slice, inner.idx, f, p)

\* One round of collect(): a call of next() on the chain; an item is pushed,
\* None ends the collection.
CollectNext ==
    /\ ~collected
    /\ LET n == FilterNext(chain.slice, chain.idx, chain.map_f, chain.filter_f)
       IN /\ chain' = [chain EXCEPT !.idx = n.idx]
          /\ IF n.out.some
             THEN res' = Append(res, n.out.item) /\ UNCHANGED collected
             ELSE collected' = TRUE /\ UNCHANGED res
    /\ IterFrame

\* Iter::from(slice).my_map(f).my_filter(p)
InitIter ==
    /\ chain \in [slice : Slices, idx : {0}, map_f : MapClosures, filter_f : FilterClosures]
    /\ res = <<>>
    /\ collected = FALSE

IdleIter ==
    /\ chain = [slice |-> <<>>, idx |-> 0, map_f |-> "square", filter_f |-> "even"]
    /\ res = <<>>
    /\ collected = TRUE

(***************************************************************************)
(* str::parse::<i32>, as core::num does it: an optional sign, then decimal *)
(* digits accumulated left to right with overflow checks.                  *)
(***************************************************************************)
\* i32::MAX and i32::MIN
I32_MAX == 2147483647
I32_MIN == (-I32_MAX) - 1

Digits == {"0", "1", "2", "3", "4", "5", "6", "7", "8", "9"}

DigitValue(c) ==
    CASE c = "0" -> 0 [] c = "1" -> 1 [] c = "2" -> 2 [] c = "3" -> 3 [] c = "4" -> 4
      [] c = "5" -> 5 [] c = "6" -> 6 [] c = "7" -> 7 [] c = "8" -> 8 [] c = "9" -> 9

ParseErr(kind) == [ok |-> FALSE, kind |-> kind]

\* The digit loop: acc holds the value of the digits read so far, already
\* negated when the sign is "-".
RECURSIVE ParseDigits(_, _, _)
ParseDigits(s, acc, positive) ==
    IF s = <<>> THEN [ok |-> TRUE, val |-> acc]
    ELSE IF Head(s) \notin Digits THEN ParseErr("InvalidDigit")
    ELSE LET d == DigitValue(Head(s))
         IN IF positive
            THEN \* checked_mul(10), checked_add(d): fails when acc * 10 + d > i32::MAX
                 IF acc > (I32_MAX - d) \div 10 THEN ParseErr("PosOverflow")
                 ELSE ParseDigits(Tail(s), acc * 10 + d, positive)
            ELSE \* checked_mul(10), checked_sub(d): fails when acc * 10 - d < i32::MIN
                 IF acc < (I32_MIN + d + 9) \div 10 THEN ParseErr("NegOverflow")
                 ELSE ParseDigits(Tail(s), acc * 10 - d, positive)

ParseI32(s) ==
    IF s = <<>> THEN ParseErr("Empty")
    ELSE IF s = <<"+">> \/ s = <<"-">> THEN ParseErr("InvalidDigit")
    ELSE IF Head(s) = "+" THEN ParseDigits(Tail(s), 0, TRUE)
    ELSE IF Head(s) = "-" THEN ParseDigits(Tail(s), 0, FALSE)
    ELSE ParseDigits(s, 0, TRUE)

\* What the examples' strings are made of: digits, signs, a letter, a blank.
TextChars == {"0", "1", "-", "+", "a", " "}

\* The decimal literals at both ends of the i32 range, and the next ones.
BoundaryTexts ==
    {<<"2", "1", "4", "7", "4", "8", "3", "6", "4", "7">>,
     <<"2", "1", "4", "7", "4", "8", "3", "6", "4", "8">>,
     <<"-", "2", "1", "4", "7", "4", "8", "3", "6", "4", "8">>,
     <<"-", "2", "1", "4", "7", "4", "8", "3", "6", "4", "9">>}

Texts == SeqsUpTo(TextChars, MaxInputLen) \cup BoundaryTexts

(***************************************************************************)
(* smart_ptr::process_data                                                 *)
(***************************************************************************)
\* "123" and "no a num" of test_process_data
TestInputs == {<<"1", "2", "3">>, <<"n", "o", " ", "a", " ", "n", "u", "m">>}

NotCalled == [called |-> FALSE]

Ok(v) == [called |-> TRUE, ok |-> TRUE, val |-> v]
Err(e) == [called |-> TRUE, ok |-> FALSE, err |-> e]

\* Box::new(NetworkError(..)) and Box::new(ParseError(format!(.., input)))
NetworkError(msg) == [type |-> "NetworkError", msg |-> msg]
ParseError(msg) == [type |-> "ParseError", msg |-> msg]

ProcessDataNoEmptyCheck(s) ==
    LET n == ParseI32(s)
    IN IF n.ok THEN Ok(n.val) ELSE Err(ParseError(<<"cannot_parse", s>>))

process_data(s) ==
    IF s = <<>> THEN Err(NetworkError("input_is_empty"))
    ELSE LET n == ParseI32(s)
         IN IF n.ok THEN Ok(n.val) ELSE Err(ParseError(<<"cannot_parse", s>>))

SmartPtrProcessData ==
    /\ ~sp_result.called
    /\ sp_result' = process_data(input)
    /\ UNCHANGED input
    /\ ParseFrame

InitParse ==
    /\ input \in Texts \cup TestInputs
    /\ sp_result = NotCalled

IdleParse ==
    /\ input = <<>>
    /\ sp_result = NotCalled

(***************************************************************************)
(* read_and_parse_number                                                   *)
(***************************************************************************)
\* char::is_whitespace, for the characters at hand
IsWhitespace(c) == c \in {" ", "\n", "\t", "\r"}

\* str::trim: drop the leading and the trailing whitespace.
RECURSIVE TrimStart(_)
TrimStart(s) ==
    IF s # <<>> /\ IsWhitespace(Head(s)) THEN TrimStart(Tail(s)) ELSE s

RECURSIVE TrimEnd(_)
TrimEnd(s) ==
    IF s # <<>> /\ IsWhitespace(s[Len(s)]) THEN TrimEnd(SubSeq(s, 1, Len(s) - 1)) ELSE s

Trim(s) == TrimEnd(TrimStart(s))

\* std::fs::read_to_string: the content, or the io::Error.
Files == [readable : {TRUE}, content : Texts]
            \cup [readable : {FALSE}, error : {"NotFound", "InvalidData"}]

ReadToString(f) ==
    IF f.readable THEN [ok |-> TRUE, val |-> f.content]
    ELSE [ok |-> FALSE, err |-> f.error]

\* impl From<std::io::Error> for FileError, impl From<ParseIntError> for FileError
FromIoError(e) == [variant |-> "Io", inner |-> e]
FromParseIntError(e) == [variant |-> "Parse", inner |-> e]
Validation(msg) == [variant |-> "Validation", inner |-> msg]

ReadAndParseNoValidation(f) ==
    LET content == ReadToString(f)
    IN IF ~content.ok THEN Err(FromIoError(content.err))
       ELSE LET number == ParseI32(Trim(content.val))
            IN IF ~number.ok THEN Err(FromParseIntError(number.kind))
               ELSE Ok(number.val)

read_and_parse_number(f) ==
    LET content == ReadToString(f)
    IN IF ~content.ok THEN Err(FromIoError(content.err))
       ELSE LET number == ParseI32(Trim(content.val))
            IN IF ~number.ok THEN Err(FromParseIntError(number.kind))
               ELSE IF number.val < 0 THEN Err(Validation("number_must_not_be_negative"))
               ELSE Ok(number.val)

ReadAndParseNumber ==
    /\ ~rp_result.called
    /\ rp_result' = read_and_parse_number(file)
    /\ UNCHANGED file
    /\ FileFrame

InitFile ==
    /\ file \in Files
    /\ rp_result = NotCalled

IdleFile ==
    /\ file = [readable |-> FALSE, error |-> "NotFound"]
    /\ rp_result = NotCalled

(***************************************************************************)
(* iter_best_practice::best_practice_result_option:                        *)
(*   data.into_iter().map(str::parse).collect::<Result<Vec<_>, _>>()       *)
(***************************************************************************)
\* vec!["invalid", "1", "2", "3", "invalid", "5"]
Invalid == <<"i", "n", "v", "a", "l", "i", "d">>
CodeData == <<Invalid, <<"1">>, <<"2">>, <<"3">>, Invalid, <<"5">>>>

Items == {<<"1">>, <<"2">>, <<"-", "1">>, <<"a">>}

DataVecs == SeqsUpTo(Items, MaxItems) \cup {CodeData}

\* One round of the collection: it asks the map adapter for its next item.
\* The adapter takes the next string and parses it; Ok is pushed, the first
\* Err ends the collection with that error, the end of the data ends it
\* with Ok(vec).
CollectStepKeepGoing ==
    /\ ~collect_result.called
    /\ IF pos = Len(data)
       THEN /\ collect_result' = Ok(vec)
            /\ UNCHANGED <<pos, parsed, vec>>
       ELSE LET r == ParseI32(data[pos + 1])
            IN /\ pos' = pos + 1
               /\ parsed' = Append(parsed, pos + 1)
               /\ vec' = IF r.ok THEN Append(vec, r.val) ELSE vec
               /\ UNCHANGED collect_result
    /\ UNCHANGED data
    /\ CollectFrame

CollectStep ==
    /\ ~collect_result.called
    /\ IF pos = Len(data)
       THEN /\ collect_result' = Ok(vec)
            /\ UNCHANGED <<pos, parsed, vec>>
       ELSE LET r == ParseI32(data[pos + 1])
            IN /\ pos' = pos + 1
               /\ parsed' = Append(parsed, pos + 1)
               /\ IF r.ok
                  THEN vec' = Append(vec, r.val) /\ UNCHANGED collect_result
                  ELSE collect_result' = Err(r.kind) /\ UNCHANGED vec
    /\ UNCHANGED data
    /\ CollectFrame

InitCollect ==
    /\ data \in DataVecs
    /\ pos = 0
    /\ parsed = <<>>
    /\ vec = <<>>
    /\ collect_result = NotCalled

IdleCollect ==
    /\ data = <<>>
    /\ pos = 0
    /\ parsed = <<>>
    /\ vec = <<>>
    /\ collect_result = NotCalled

(***************************************************************************)
(* iter_best_practice::best_practice_error_handling: a collect pass over   *)
(* the data, `parsed?`, then the try_fold pass over the same data.  The    *)
(* sums are i32; the elements at hand keep them far from its ends.         *)
(***************************************************************************)
\* vec!["1", "2", "3", "invalid", "5"]
FoldCodeData == <<<<"1">>, <<"2">>, <<"3">>, Invalid, <<"5">>>>

FoldDataVecs == SeqsUpTo(Items, MaxItems) \cup {FoldCodeData}

\* From::from: the ParseIntError boxed as Box<dyn Error>
BoxParseIntError(kind) == [type |-> "ParseIntError", kind |-> kind]

RECURSIVE SumSeq(_)
SumSeq(v) == IF v = <<>> THEN 0 ELSE Head(v) + SumSeq(Tail(v))

\* One round of data.iter().map(|s| s.parse::<i32>()).collect(): the next
\* element is parsed; the first Err, or the end of the data, ends the pass.
EhCollectStep ==
    /\ eh_pc = "collect"
    /\ IF eh_pos = Len(eh_data)
       THEN /\ eh_pc' = "question"
            /\ UNCHANGED <<eh_pos, eh_parsed, eh_log>>
       ELSE LET r == ParseI32(eh_data[eh_pos + 1])
            IN /\ eh_pos' = eh_pos + 1
               /\ eh_log' = [eh_log EXCEPT !.collect = Append(@, eh_pos + 1)]
               /\ IF r.ok
                  THEN /\ eh_parsed' = Ok(Append(eh_parsed.val, r.val))
                       /\ UNCHANGED eh_pc
                  ELSE /\ eh_parsed' = Err(r.kind)
                       /\ eh_pc' = "question"
    /\ UNCHANGED <<eh_data, eh_acc, eh_result>>
    /\ FoldFrame

\* let _res = Ok(parsed?.iter().sum::<i32>()): the ? returns the error of
\* the collect pass from the function; on Ok the function goes on to
\* try_fold.
EhQuestionMark ==
    /\ eh_pc = "question"
    /\ IF eh_parsed.ok
       THEN /\ eh_pc' = "try_fold"
            /\ eh_pos' = 0
            /\ UNCHANGED eh_result
       ELSE /\ eh_pc' = "done"
            /\ eh_result' = Err(BoxParseIntError(eh_parsed.err))
            /\ UNCHANGED eh_pos
    /\ UNCHANGED <<eh_data, eh_parsed, eh_log, eh_acc>>
    /\ FoldFrame

\* One round of data.iter().try_fold(0, |acc, s| ..): the next element is
\* parsed; Ok(n) makes the accumulator acc + n, Err ends the fold with the
\* boxed error, the end of the data ends it with Ok(acc).
EhTryFoldStep ==
    /\ eh_pc = "try_fold"
    /\ IF eh_pos = Len(eh_data)
       THEN /\ eh_pc' = "done"
            /\ eh_result' = Ok(eh_acc)
            /\ UNCHANGED <<eh_pos, eh_log, eh_acc>>
       ELSE LET r == ParseI32(eh_data[eh_pos + 1])
            IN /\ eh_pos' = eh_pos + 1
               /\ eh_log' = [eh_log EXCEPT !.try_fold = Append(@, eh_pos + 1)]
               /\ IF r.ok
                  THEN /\ eh_acc' = eh_acc + r.val
                       /\ UNCHANGED <<eh_pc, eh_result>>
                  ELSE /\ eh_pc' = "done"
                       /\ eh_result' = Err(BoxParseIntError(r.kind))
                       /\ UNCHANGED eh_acc
    /\ UNCHANGED <<eh_data, eh_parsed>>
    /\ FoldFrame

InitFold ==
    /\ eh_data \in FoldDataVecs
    /\ eh_pc = "collect"
    /\ eh_pos = 0
    /\ eh_parsed = Ok(<<>>)
    /\ eh_log = [collect |-> <<>>, try_fold |-> <<>>]
    /\ eh_acc = 0
    /\ eh_result = NotCalled

IdleFold ==
    /\ eh_data = <<>>
    /\ eh_pc = "idle"
    /\ eh_pos = 0
    /\ eh_parsed = Ok(<<>>)
    /\ eh_log = [collect |-> <<>>, try_fold |-> <<>>]
    /\ eh_acc = 0
    /\ eh_result = NotCalled

(***************************************************************************)
(* zero_cost_benchmark: the hand-written loop, then the iterator chain,    *)
(* then assert_eq!(sum1, sum2).                                            *)
(***************************************************************************)
\* (0..SIZE as i32).collect()
RECURSIVE Range(_)
Range(n) == IF n = 0 THEN <<>> ELSE Append(Range(n - 1), n - 1)

\* 2^30: the least i32 whose double overflows, and the base the i64 sums
\* are kept in.
Base30 == (I32_MAX \div 2) + 1

\* Other i32 values: odd and even, negative, and one whose double overflows.
BenchValues == {-3, -2, 1, 2, Base30}

BenchVecs == {Range(n) : n \in 0..MaxSize} \cup SeqsUpTo(BenchValues, MaxBenchLen)

\* Overflow checks are on in the dev and test profiles and off in release.
Profiles == {"debug", "release"}

\* x * 2 in i32.  Overflows(x): the product leaves the i32 range (a panic
\* with overflow checks).  Double(x): the product as wrapping arithmetic
\* leaves it, x * 2 - 2^32 above the range and x * 2 + 2^32 below it.
Overflows(x) == x > I32_MAX \div 2 \/ x < I32_MIN \div 2

Double(x) ==
    IF x > I32_MAX \div 2 THEN ((x - I32_MAX) - 1) * 2
    ELSE IF x < I32_MIN \div 2 THEN ((x + I32_MAX) + 1) * 2
    ELSE x * 2

\* The sums are i64.  TLC's integers end at i32::MAX, so an i64 is kept
\* as two digits in base 2^30: its value is q * 2^30 + r with 0 <= r < 2^30.
\* Add64(sum, y) is sum + (y as i64) for an i32 y.
Zero64 == [q |-> 0, r |-> 0]

Add64(sum, y) ==
    LET low == sum.r + (y % Base30)
    IN [q |-> sum.q + (y \div Base30) + (low \div Base30), r |-> low % Base30]

\* The hand-written loop:
\*   for i in 0..data.len() { if data[i] % 2 == 0 { sum1 += (data[i] * 2) as i64; } }
LoopTest(x) == RustRem(x, 2) = 0

LoopAddNoDouble(sum, x) == IF LoopTest(x) THEN Add64(sum, x) ELSE sum

LoopAdd(sum, x) == IF LoopTest(x) THEN Add64(sum, Double(x)) ELSE sum

LoopStep ==
    /\ bench_pc = "loop"
    /\ IF loop_i = Len(bench.data)
       THEN /\ bench_pc' = "iter"
            /\ loop_i' = 0
            /\ UNCHANGED sum1
       ELSE LET x == bench.data[loop_i + 1]
            IN IF LoopTest(x) /\ Overflows(x) /\ bench.profile = "debug"
               THEN /\ bench_pc' = "panicked"
                    /\ UNCHANGED <<sum1, loop_i>>
               ELSE /\ sum1' = LoopAdd(sum1, x)
                    /\ loop_i' = loop_i + 1
                    /\ UNCHANGED bench_pc
    /\ UNCHANGED <<bench, sum2>>
    /\ BenchFrame

\* The iterator chain:
\*   data.iter().filter(|&&x| x % 2 == 0).map(|&x| (x * 2) as i64).sum()
\* sum() takes the chain's items one by one; each round takes one element
\* of data through the filter and, when it passes, through the map.
ChainFilter(x) == RustRem(x, 2) = 0

ChainMap(x) == Double(x)

IterSumStep ==
    /\ bench_pc = "iter"
    /\ IF loop_i = Len(bench.data)
       THEN /\ bench_pc' = "assert"
            /\ UNCHANGED <<sum2, loop_i>>
       ELSE LET x == bench.data[loop_i + 1]
            IN IF ChainFilter(x) /\ Overflows(x) /\ bench.profile = "debug"
               THEN /\ bench_pc' = "panicked"
                    /\ UNCHANGED <<sum2, loop_i>>
               ELSE /\ sum2' = IF ChainFilter(x) THEN Add64(sum2, ChainMap(x)) ELSE sum2
                    /\ loop_i' = loop_i + 1
                    /\ UNCHANGED bench_pc
    /\ UNCHANGED <<bench, sum1>>
    /\ BenchFrame

\* assert_eq!(sum1, sum2)
AssertEq ==
    /\ bench_pc = "assert"
    /\ bench_pc' = IF sum1 = sum2 THEN "done" ELSE "assert_failed"
    /\ UNCHANGED <<bench, loop_i, sum1, sum2>>
    /\ BenchFrame

InitBench ==
    /\ bench \in [data : BenchVecs, profile : Profiles]
    /\ bench_pc = "loop"
    /\ loop_i = 0
    /\ sum1 = Zero64
    /\ sum2 = Zero64

IdleBench ==
    /\ bench = [data |-> <<>>, profile |-> "debug"]
    /\ bench_pc = "done"
    /\ loop_i = 0
    /\ sum1 = Zero64
    /\ sum2 = Zero64

(***************************************************************************)
(* smart_ptr::DebugBox                                                     *)
(***************************************************************************)
\* What test_debug_box does with its DebugBox, plus the getter:
\*   "len"           debug_str.len()           (method call through Deref)
\*   "star"          *debug_str                (explicit dereference)
\*   "display"       format with {}            (Display::fmt)
\*   "access_count"  debug_str.access_count()
BoxOps == {"len", "star", "display", "access_count"}

\* Deref::deref: self.access_count.update(|c| c + 1)
Deref(c) == c + 1

\* Display::fmt: `let data: &T = &self;` coerces &&DebugBox<T> to &T, which
\* calls deref once; write! then formats the T itself.
FmtDerefTwice(c) == Deref(Deref(c))

Fmt(c) == Deref(c)

\* debug_str.len(): String::len is found after one deref of the DebugBox.
DebugBoxLen ==
    /\ ~dropped /\ Len(box_ops) < MaxOps
    /\ access_count' = Deref(access_count)
    /\ box_ops' = Append(box_ops, "len")
    /\ UNCHANGED <<last_read, dropped>>
    /\ BoxFrame

DebugBoxStar ==
    /\ ~dropped /\ Len(box_ops) < MaxOps
    /\ access_count' = Deref(access_count)
    /\ box_ops' = Append(box_ops, "star")
    /\ UNCHANGED <<last_read, dropped>>
    /\ BoxFrame

DebugBoxDisplay ==
    /\ ~dropped /\ Len(box_ops) < MaxOps
    /\ access_count' = Fmt(access_count)
    /\ box_ops' = Append(box_ops, "display")
    /\ UNCHANGED <<last_read, dropped>>
    /\ BoxFrame

\* DebugBox::access_count: self.access_count.get()
DebugBoxAccessCount ==
    /\ ~dropped /\ Len(box_ops) < MaxOps
    /\ last_read' = access_count
    /\ box_ops' = Append(box_ops, "access_count")
    /\ UNCHANGED <<access_count, dropped>>
    /\ BoxFrame

\* Drop::drop prints the count and changes nothing.
DebugBoxDrop ==
    /\ ~dropped
    /\ dropped' = TRUE
    /\ last_read' = access_count
    /\ UNCHANGED <<access_count, box_ops>>
    /\ BoxFrame

\* DebugBox::new
InitBox ==
    /\ access_count = 0
    /\ box_ops = <<>>
    /\ last_read = -1
    /\ dropped = FALSE

IdleBox ==
    /\ access_count = 0
    /\ box_ops = <<>>
    /\ last_read = -1
    /\ dropped = TRUE

(***************************************************************************)
(* smart_ptr::smart_pointers_in_practice                                   *)
(***************************************************************************)
\* (0..4): the number of threads spawned
NumThreads == 4

ThreadIds == 0..(NumThreads - 1)

\* let config = Rc::new(String::from("production"));
\* (the two Rc::clone(&config) lines that follow are commented out)
RcNew ==
    /\ sp_pc = "rc_new"
    /\ config_strong' = 1
    /\ sp_pc' = "print"
    /\ UNCHANGED <<printed, shared_counter, arc_strong, threads, joined,
                   mutable_in_immutable>>
    /\ SmartFrame

\* println!(.., Rc::strong_count(&config))
PrintCount ==
    /\ sp_pc = "print"
    /\ printed' = Append(printed, config_strong)
    /\ sp_pc' = "arc_new"
    /\ UNCHANGED <<config_strong, shared_counter, arc_strong, threads, joined,
                   mutable_in_immutable>>
    /\ SmartFrame

\* let shared_counter = Arc::new(AtomicUsize::new(0));
ArcNew ==
    /\ sp_pc = "arc_new"
    /\ shared_counter' = 0
    /\ arc_strong' = 1
    /\ sp_pc' = "spawn"
    /\ UNCHANGED <<config_strong, printed, threads, joined, mutable_in_immutable>>
    /\ SmartFrame

\* One round of (0..4).map(..).collect(): Arc::clone, then thread::spawn.
\* Threads are spawned in the order of their numbers.
Spawn ==
    /\ sp_pc = "spawn"
    /\ IF \E t \in ThreadIds : threads[t] = "unspawned"
       THEN LET t == CHOOSE u \in ThreadIds :
                         /\ threads[u] = "unspawned"
                         /\ \A w \in ThreadIds : w < u => threads[w] # "unspawned"
            IN /\ threads' = [threads EXCEPT ![t] = "running"]
               /\ arc_strong' = arc_strong + 1
               /\ UNCHANGED sp_pc
       ELSE /\ sp_pc' = "join"
            /\ UNCHANGED <<threads, arc_strong>>
    /\ UNCHANGED <<config_strong, printed, shared_counter, joined, mutable_in_immutable>>
    /\ SmartFrame

\* counter.fetch_add(1, Ordering::SeqCst): one atomic read-modify-write
FetchAdd(t) ==
    /\ threads[t] = "running"
    /\ shared_counter' = shared_counter + 1
    /\ threads' = [threads EXCEPT ![t] = "added"]
    /\ UNCHANGED <<sp_pc, config_strong, printed, arc_strong, joined,
                   mutable_in_immutable>>
    /\ SmartFrame

\* println!, then the closure returns and drops its Arc.
ThreadFinish(t) ==
    /\ threads[t] = "added"
    /\ threads' = [threads EXCEPT ![t] = "finished"]
    /\ arc_strong' = arc_strong - 1
    /\ UNCHANGED <<sp_pc, config_strong, printed, shared_counter, joined,
                   mutable_in_immutable>>
    /\ SmartFrame

\* for handle in handles { handle.join().unwrap(); }: join returns once the
\* handle's thread has finished; the handles are joined in spawn order.
JoinNoWait ==
    /\ sp_pc = "join"
    /\ IF joined = NumThreads
       THEN /\ sp_pc' = "refcell"
            /\ UNCHANGED joined
       ELSE /\ joined' = joined + 1
            /\ UNCHANGED sp_pc
    /\ UNCHANGED <<config_strong, printed, shared_counter, arc_strong, threads,
                   mutable_in_immutable>>
    /\ SmartFrame

Join ==
    /\ sp_pc = "join"
    /\ IF joined = NumThreads
       THEN /\ sp_pc' = "refcell"
            /\ UNCHANGED joined
       ELSE /\ threads[joined] = "finished"
            /\ joined' = joined + 1
            /\ UNCHANGED sp_pc
    /\ UNCHANGED <<config_strong, printed, shared_counter, arc_strong, threads,
                   mutable_in_immutable>>
    /\ SmartFrame

\* RefCell::new(vec![1, 2, 3]), borrow_mut().push(4), and the return, which
\* drops config and shared_counter.
RefCellPush ==
    /\ sp_pc = "refcell"
    /\ mutable_in_immutable' = Append(<<1, 2, 3>>, 4)
    /\ config_strong' = config_strong - 1
    /\ arc_strong' = arc_strong - 1
    /\ sp_pc' = "done"
    /\ UNCHANGED <<printed, shared_counter, threads, joined>>
    /\ SmartFrame

InitSmart ==
    /\ sp_pc = "rc_new"
    /\ config_strong = 0
    /\ printed = <<>>
    /\ shared_counter = 0
    /\ arc_strong = 0
    /\ threads = [t \in ThreadIds |-> "unspawned"]
    /\ joined = 0
    /\ mutable_in_immutable = <<>>

IdleSmart ==
    /\ sp_pc = "idle"
    /\ config_strong = 0
    /\ printed = <<>>
    /\ shared_counter = 0
    /\ arc_strong = 0
    /\ threads = [t \in ThreadIds |-> "unspawned"]
    /\ joined = 0
    /\ mutable_in_immutable = <<>>

(***************************************************************************)
(* error_layout: AppError and its IntoResponse.  The messages, Chinese in  *)
(* the source, are given here in translation.                              *)
(***************************************************************************)
\* The values a payload field can take (user ids, e-mail addresses, field
\* names, reasons, the wrapped library errors).
Payloads == 1..MaxPayload

UserDomainError ==
    [variant : {"NotFound"}, user_id : Payloads]
        \cup [variant : {"AlreadyExists"}, email : Payloads]
        \cup [variant : {"ValidationFailed"}, field : Payloads, reason : Payloads]

InfrastructureError == [variant : {"Database", "Redis", "Http"}, source : Payloads]

AppError ==
    [variant : {"Domain"}, inner : UserDomainError]
        \cup [variant : {"Infrastructure"}, inner : InfrastructureError]
        \cup [variant : {"Internal"}, inner : Payloads]

\* StatusCode::NOT_FOUND, CONFLICT, BAD_REQUEST, INTERNAL_SERVER_ERROR
NOT_FOUND == 404
CONFLICT == 409
BAD_REQUEST == 400
INTERNAL_SERVER_ERROR == 500

\* (status, Json(json!({"error": {"code": code, "message": message}})))
Response(status, message, code) ==
    [status |-> status, body |-> [error |-> [code |-> code, message |-> message]]]

\* The #[error(..)] text of an InfrastructureError
InfrastructureDisplay(e) ==
    CASE e.variant = "Database" -> "database connection failed"
      [] e.variant = "Redis" -> "Redis connection failed"
      [] e.variant = "Http" -> "HTTP request failed"

IntoResponseWithDetail(e) ==
    CASE e.variant = "Domain" /\ e.inner.variant = "NotFound" ->
            Response(NOT_FOUND, "user does not exist", "USER_NOT_FOUND")
      [] e.variant = "Domain" /\ e.inner.variant = "AlreadyExists" ->
            Response(CONFLICT, "user already exists", "USER_ALREADY_EXISTS")
      [] e.variant = "Domain" /\ e.inner.variant = "ValidationFailed" ->
            Response(BAD_REQUEST, "input validation failed", "VALIDATION_FAILED")
      [] e.variant = "Infrastructure" ->
            Response(INTERNAL_SERVER_ERROR, InfrastructureDisplay(e.inner),
                     "SERVICE_UNAVAILABLE")
      [] e.variant = "Internal" ->
            Response(INTERNAL_SERVER_ERROR, "internal server error", "INTERNAL_ERROR")

into_response(e) ==
    CASE e.variant = "Domain" /\ e.inner.variant = "NotFound" ->
            Response(NOT_FOUND, "user does not exist", "USER_NOT_FOUND")
      [] e.variant = "Domain" /\ e.inner.variant = "AlreadyExists" ->
            Response(CONFLICT, "user already exists", "USER_ALREADY_EXISTS")
      [] e.variant = "Domain" /\ e.inner.variant = "ValidationFailed" ->
            Response(BAD_REQUEST, "input validation failed", "VALIDATION_FAILED")
      [] e.variant = "Infrastructure" ->
            Response(INTERNAL_SERVER_ERROR, "service temporarily unavailable",
                     "SERVICE_UNAVAILABLE")
      [] e.variant = "Internal" ->
            Response(INTERNAL_SERVER_ERROR, "internal server error", "INTERNAL_ERROR")

NoResponse == [status |-> 0]

IntoResponse(k) ==
    /\ responses[k] = NoResponse
    /\ responses' = [responses EXCEPT ![k] = into_response(app_errors[k])]
    /\ UNCHANGED app_errors
    /\ RespFrame

InitResp ==
    /\ app_errors \in [1..2 -> AppError]
    /\ responses = [k \in 1..2 |-> NoResponse]

IdleResp ==
    /\ app_errors = [k \in 1..2 |-> [variant |-> "Internal", inner |-> 1]]
    /\ responses = [k \in 1..2 |-> NoResponse]

(***************************************************************************)
(* Specifications, one per example.                                        *)
(***************************************************************************)
IdlePlugin == InitPlugin

\* PluginManager
Init ==
    /\ InitPlugin
    /\ IdleIter /\ IdleParse /\ IdleFile /\ IdleCollect /\ IdleBench /\ IdleBox
    /\ IdleSmart /\ IdleResp
    /\ IdleFold

Next ==
    \/ \E p \in ProcessorTypes : Register(p)
    \/ \E d \in DataInputs : PluginProcessData(d)

Spec == Init /\ [][Next]_vars

\* Iter / Map / Filter
InitIterSpec ==
    /\ InitIter
    /\ IdlePlugin /\ IdleParse /\ IdleFile /\ IdleCollect /\ IdleBench /\ IdleBox
    /\ IdleSmart /\ IdleResp
    /\ IdleFold

NextIter == CollectNext

SpecIter == InitIterSpec /\ [][NextIter]_vars

\* smart_ptr::process_data
InitParseSpec ==
    /\ InitParse
    /\ IdlePlugin /\ IdleIter /\ IdleFile /\ IdleCollect /\ IdleBench /\ IdleBox
    /\ IdleSmart /\ IdleResp
    /\ IdleFold

NextParse == SmartPtrProcessData

SpecParse == InitParseSpec /\ [][NextParse]_vars

\* read_and_parse_number
InitFileSpec ==
    /\ InitFile
    /\ IdlePlugin /\ IdleIter /\ IdleParse /\ IdleCollect /\ IdleBench /\ IdleBox
    /\ IdleSmart /\ IdleResp
    /\ IdleFold

NextFile == ReadAndParseNumber

SpecFile == InitFileSpec /\ [][NextFile]_vars

\* best_practice_result_option
InitCollectSpec ==
    /\ InitCollect
    /\ IdlePlugin /\ IdleIter /\ IdleParse /\ IdleFile /\ IdleBench /\ IdleBox
    /\ IdleSmart /\ IdleResp
    /\ IdleFold

NextCollect == CollectStep

SpecCollect == InitCollectSpec /\ [][NextCollect]_vars

\* zero_cost_benchmark
InitBenchSpec ==
    /\ InitBench
    /\ IdlePlugin /\ IdleIter /\ IdleParse /\ IdleFile /\ IdleCollect /\ IdleBox
    /\ IdleSmart /\ IdleResp
    /\ IdleFold

NextBench == LoopStep \/ IterSumStep \/ AssertEq

SpecBench == InitBenchSpec /\ [][NextBench]_vars

\* DebugBox
InitBoxSpec ==
    /\ InitBox
    /\ IdlePlugin /\ IdleIter /\ IdleParse /\ IdleFile /\ IdleCollect /\ IdleBench
    /\ IdleSmart /\ IdleResp
    /\ IdleFold

NextBox ==
    \/ DebugBoxLen
    \/ DebugBoxStar
    \/ DebugBoxDisplay
    \/ DebugBoxAccessCount
    \/ DebugBoxDrop

SpecBox == InitBoxSpec /\ [][NextBox]_vars

\* smart_pointers_in_practice
InitSmartSpec ==
    /\ InitSmart
    /\ IdlePlugin /\ IdleIter /\ IdleParse /\ IdleFile /\ IdleCollect /\ IdleBench
    /\ IdleBox /\ IdleResp
    /\ IdleFold

NextSmart ==
    \/ RcNew
    \/ PrintCount
    \/ ArcNew
    \/ Spawn
    \/ \E t \in ThreadIds : FetchAdd(t)
    \/ \E t \in ThreadIds : ThreadFinish(t)
    \/ Join
    \/ RefCellPush

SpecSmart == InitSmartSpec /\ [][NextSmart]_vars

\* AppError::into_response
InitRespSpec ==
    /\ InitResp
    /\ IdlePlugin /\ IdleIter /\ IdleParse /\ IdleFile /\ IdleCollect /\ IdleBench
    /\ IdleBox /\ IdleSmart
    /\ IdleFold

NextResp == \E k \in 1..2 : IntoResponse(k)

SpecResp == InitRespSpec /\ [][NextResp]_vars

\* best_practice_error_handling
InitFoldSpec ==
    /\ InitFold
    /\ IdlePlugin /\ IdleIter /\ IdleParse /\ IdleFile /\ IdleCollect /\ IdleBench
    /\ IdleBox /\ IdleSmart /\ IdleResp

NextFold == EhCollectStep \/ EhQuestionMark \/ EhTryFoldStep

SpecFold == InitFoldSpec /\ [][NextFold]_vars

(***************************************************************************)
(* Decimal notation, stated without the parser: what it means for a string *)
(* to be the literal of an i32, and the number it denotes.                 *)
(***************************************************************************)
HasSign(s) == s # <<>> /\ s[1] \in {"+", "-"}

DigitsOf(s) == IF HasSign(s) THEN Tail(s) ELSE s

RECURSIVE StripZeros(_)
StripZeros(s) == IF s # <<>> /\ Head(s) = "0" THEN StripZeros(Tail(s)) ELSE s

\* a <= b for two digit strings of the same length
RECURSIVE DigitsLeq(_, _)
DigitsLeq(a, b) ==
    \/ a = <<>>
    \/ DigitValue(Head(a)) < DigitValue(Head(b))
    \/ Head(a) = Head(b) /\ DigitsLeq(Tail(a), Tail(b))

MaxMagnitude(negative) ==
    IF negative THEN <<"2", "1", "4", "7", "4", "8", "3", "6", "4", "8">>
    ELSE <<"2", "1", "4", "7", "4", "8", "3", "6", "4", "7">>

IsI32Literal(s) ==
    LET ds == DigitsOf(s)
        z == StripZeros(ds)
    IN /\ ds # <<>>
       /\ \A k \in 1..Len(ds) : ds[k] \in Digits
       /\ \/ Len(z) < 10
          \/ Len(z) = 10 /\ DigitsLeq(z, MaxMagnitude(s[1] = "-"))

RECURSIVE Pow10(_)
Pow10(n) == IF n = 0 THEN 1 ELSE 10 * Pow10(n - 1)

\* The sum of sign * digit * 10^place over the digits of z.
RECURSIVE PlaceValueSum(_, _)
PlaceValueSum(z, sign) ==
    IF z = <<>> THEN 0
    ELSE sign * DigitValue(Head(z)) * Pow10(Len(z) - 1) + PlaceValueSum(Tail(z), sign)

LiteralValue(s) ==
    PlaceValueSum(StripZeros(DigitsOf(s)), IF s[1] = "-" THEN -1 ELSE 1)

(***************************************************************************)
(* The claims.                                                             *)
(***************************************************************************)

\* C1: PluginManager::process_data tries the processors in list order, which
\* is descending priority order; it returns Ok with the result of the first
\* processor whose process(data) succeeds, every processor before that one
\* was invoked and failed, and no processor after it is invoked.
C1_FirstSuccessWins ==
    pd_call.called =>
        LET v == pd_call.self
            log == pd_call.invoked
            n == Len(log)
            winners == {k \in 1..Len(v) : process(v[k], pd_call.data).ok}
        IN /\ n <= Len(v)
           /\ \A k \in 1..n : log[k].name = v[k]
           /\ \A k \in 1..(n - 1) : priority(v[k]) >= priority(v[k + 1])
           /\ pd_call.result.ok <=> winners # {}
           /\ winners # {} =>
                 /\ n \in winners
                 /\ \A k \in winners : n <= k
                 /\ pd_call.result = process(v[n], pd_call.data)
                 /\ \A k \in 1..(n - 1) : ~log[k].ok

\* A call in which the first processor failed, the second succeeded and a
\* third, which would have succeeded too, was not invoked.
C1_Witness ==
    /\ pd_call.called
    /\ Len(pd_call.self) = 3
    /\ Len(pd_call.invoked) = 2
    /\ pd_call.result.ok
    /\ process(pd_call.self[3], pd_call.data).ok

\* C2: after any sequence of register calls from PluginManager::new(), the
\* processors are sorted by non-increasing priority.
C2_SortedByPriority ==
    \A k \in 1..(Len(processors) - 1) :
        priority(processors[k]) >= priority(processors[k + 1])

\* Three registered processors of both types.
C2_Witness ==
    /\ Len(processors) = 3
    /\ processors[1] = "JsonProcessor"
    /\ processors[3] = "CsvProcessor"

\* C3: collecting Iter::from(s).my_map(f).my_filter(p) yields the values
\* f(x) for x in s, in slice order, that satisfy p; for 0..9, squaring and
\* evenness that is [0, 4, 16, 36, 64].
C3_MapFilterCollect ==
    collected =>
        /\ LET mapped == [k \in 1..Len(chain.slice) |-> CallMap(chain.map_f, chain.slice[k])]
           IN res = SelectSeq(mapped, LAMBDA y : CallFilter(chain.filter_f, y))
        /\ (chain.slice = TestVec /\ chain.map_f = "square" /\ chain.filter_f = "even")
              => res = <<0, 4, 16, 36, 64>>

\* The test's chain, collected.
C3_Witness ==
    /\ collected
    /\ chain.slice = TestVec /\ chain.map_f = "square" /\ chain.filter_f = "even"
    /\ Len(res) = 5

\* C4: smart_ptr::process_data(input) returns Ok(n) exactly when input is not
\* empty and is the literal of an i32 n; otherwise it returns Err, a
\* NetworkError for the empty input and a ParseError for any other.
C4_ProcessDataResult ==
    sp_result.called =>
        /\ sp_result.ok <=> (input # <<>> /\ IsI32Literal(input))
        /\ sp_result.ok => sp_result.val = LiteralValue(input)
        /\ input = <<>> => ~sp_result.ok /\ sp_result.err.type = "NetworkError"
        /\ (input # <<>> /\ ~IsI32Literal(input))
              => ~sp_result.ok /\ sp_result.err.type = "ParseError"
        /\ input = <<"1", "2", "3">> => sp_result.ok /\ sp_result.val = 123

\* The test's second call: "no a num" is refused with a ParseError.
C4_Witness ==
    /\ sp_result.called
    /\ input = <<"n", "o", " ", "a", " ", "n", "u", "m">>
    /\ ~sp_result.ok
    /\ sp_result.err.type = "ParseError"

\* C5: on the vector 0..SIZE, and on any vector none of whose elements
\* overflows when doubled, the index loop and the iterator chain produce
\* the same sum, so assert_eq!(sum1, sum2) passes.
C5_SumsAgree ==
    (\A k \in 1..Len(bench.data) : ~Overflows(bench.data[k])) =>
        /\ bench_pc \in {"assert", "done"} => sum1 = sum2
        /\ bench_pc \notin {"assert_failed", "panicked"}

\* The run on 0..4 ended with both sums at (0 + 2) * 2.
C5_Witness ==
    /\ bench_pc = "done"
    /\ bench.data = <<0, 1, 2, 3>>
    /\ sum1 = [q |-> 0, r |-> 4]
    /\ sum2 = [q |-> 0, r |-> 4]

\* C6: access_count starts at 0 and grows by one with every deref of the
\* DebugBox and with nothing else; Display derefs once, so after len(), *
\* and Display the getter returns 3.
C6_AccessCountCountsDerefs ==
    /\ access_count = Cardinality({k \in 1..Len(box_ops) : box_ops[k] # "access_count"})
    /\ box_ops = <<>> => access_count = 0
    /\ box_ops = <<"len", "star", "display">> => access_count = 3
    /\ box_ops = <<"len", "star", "display", "access_count">> => last_read = 3

\* test_debug_box: the three operations, then the getter.
C6_Witness ==
    /\ box_ops = <<"len", "star", "display", "access_count">>
    /\ last_read = 3
    /\ ~dropped

\* C7: when smart_pointers_in_practice prints the reference count of the
\* shared configuration, the count is 3.
C7_ConfigReferencedThreeTimes ==
    \A k \in 1..Len(printed) : printed[k] = 3

\* C8: the response of AppError::into_response depends on the variant of
\* the error alone: two errors of the same variant get the same response,
\* whatever they carry; every Infrastructure error gets 500 / "service
\* temporarily unavailable" / SERVICE_UNAVAILABLE; NotFound gets 404,
\* AlreadyExists 409, ValidationFailed 400 and Internal 500.
VariantOf(e) ==
    IF e.variant = "Domain" THEN <<"Domain", e.inner.variant>> ELSE <<e.variant>>

C8_ResponseDependsOnVariantOnly ==
    /\ (/\ responses[1] # NoResponse
        /\ responses[2] # NoResponse
        /\ VariantOf(app_errors[1]) = VariantOf(app_errors[2]))
          => responses[1] = responses[2]
    /\ \A k \in 1..2 :
          responses[k] # NoResponse =>
            LET e == app_errors[k]
                r == responses[k]
            IN /\ e.variant = "Infrastructure" =>
                     /\ r.status = 500
                     /\ r.body.error.message = "service temporarily unavailable"
                     /\ r.body.error.code = "SERVICE_UNAVAILABLE"
               /\ VariantOf(e) = <<"Domain", "NotFound">> => r.status = 404
               /\ VariantOf(e) = <<"Domain", "AlreadyExists">> => r.status = 409
               /\ VariantOf(e) = <<"Domain", "ValidationFailed">> => r.status = 400
               /\ e.variant = "Internal" => r.status = 500

\* Two Infrastructure errors that wrap errors of different libraries, both
\* turned into responses.
C8_Witness ==
    /\ responses[1] # NoResponse
    /\ responses[2] # NoResponse
    /\ app_errors[1].variant = "Infrastructure"
    /\ app_errors[2].variant = "Infrastructure"
    /\ app_errors[1].inner.variant # app_errors[2].inner.variant

\* C9: read_and_parse_number returns Ok(n) only when the file was read, its
\* trimmed content is the literal of an i32 n and n >= 0; otherwise it
\* returns the first failure: Io when reading fails, else Parse when the
\* trimmed content is no literal, else Validation when n < 0.
C9_ReadAndParseResult ==
    rp_result.called =>
        IF ~file.readable
        THEN rp_result = Err(FromIoError(file.error))
        ELSE LET t == Trim(file.content)
             IN IF ~IsI32Literal(t)
                THEN ~rp_result.ok /\ rp_result.err.variant = "Parse"
                ELSE IF LiteralValue(t) < 0
                THEN ~rp_result.ok /\ rp_result.err.variant = "Validation"
                ELSE rp_result.ok /\ rp_result.val = LiteralValue(t) /\ rp_result.val >= 0

\* A file holding a negative number between blanks is refused by the
\* validation.
C9_Witness ==
    /\ rp_result.called
    /\ file.readable
    /\ file.content = <<" ", "-", "1">>
    /\ ~rp_result.ok
    /\ rp_result.err.variant = "Validation"

\* C10: collecting the parse results into Result<Vec<_>, _> stops at the
\* first Err and returns it; no element after the first one that does not
\* parse is ever parsed; Ok(vec) is returned only when every element
\* parses, and vec then holds the parsed values in input order.
C10_CollectStopsAtFirstErr ==
    LET bad == {k \in 1..Len(data) : ~IsI32Literal(data[k])}
    IN /\ \A j \in 1..Len(parsed) : \A b \in bad : parsed[j] <= b
       /\ collect_result.called =>
             /\ collect_result.ok <=> bad = {}
             /\ collect_result.ok =>
                   collect_result.val = [k \in 1..Len(data) |-> LiteralValue(data[k])]
             /\ bad # {} =>
                   LET first == CHOOSE b \in bad : \A c \in bad : b <= c
                   IN /\ collect_result.err = ParseI32(data[first]).kind
                      /\ parsed = [k \in 1..first |-> k]

\* The function's own data: the first element does not parse, the error is
\* returned and the five elements behind it were never parsed.
C10_Witness ==
    /\ collect_result.called
    /\ data = CodeData
    /\ ~collect_result.ok
    /\ parsed = <<1>>

\* C11: in best_practice_error_handling the try_fold pass parses the
\* elements in order and accumulates their sum; at the first element that
\* does not parse it stops and returns that element's error, and no later
\* element is parsed.
C11_TryFoldStopsAtFirstErr ==
    eh_pc = "done" =>
        LET bad == {k \in 1..Len(eh_data) : ~IsI32Literal(eh_data[k])}
            last == IF bad = {} THEN Len(eh_data)
                    ELSE CHOOSE b \in bad : \A c \in bad : b <= c
        IN /\ eh_log.try_fold = [k \in 1..last |-> k]
           /\ bad = {} =>
                 eh_result = Ok(SumSeq([k \in 1..Len(eh_data) |-> LiteralValue(eh_data[k])]))
           /\ bad # {} =>
                 eh_result = Err(BoxParseIntError(ParseI32(eh_data[last]).kind))

\* C12: each of the 4 spawned threads increments the shared counter exactly
\* once and no increment is lost; the function leaves the join loop only
\* when all four threads have finished, and the counter is then 4, under
\* every interleaving.
C12_FanOutCountsFour ==
    /\ shared_counter = Cardinality({t \in ThreadIds : threads[t] \in {"added", "finished"}})
    /\ \A t \in ThreadIds : t < joined => threads[t] = "finished"
    /\ joined = NumThreads => shared_counter = 4
    /\ sp_pc \in {"refcell", "done"} =>
          /\ joined = NumThreads
          /\ \A t \in ThreadIds : threads[t] = "finished"
          /\ shared_counter = 4

\* The join loop has been left: all four handles joined, the counter at 4.
C12_Witness ==
    /\ sp_pc = "refcell"
    /\ joined = NumThreads
    /\ shared_counter = 4

====
